---- MODULE Spec2Model ----
(***************************************************************************)
(* Model of pipeline/status_ui.py: the static console handler              *)
(* (statusui_handler), the JSON-RPC decorator (_rpc_handler.wrapper) and   *)
(* the three endpoints built with it.                                      *)
(*                                                                         *)
(* Every request is handled statelessly.  The state is the process-wide    *)
(* configuration, the deployment the module runs from, and the observable  *)
(* record of the request handled last: the request, the response (or the   *)
(* exception that left the view), the calls made into the engine and the   *)
(* asset loading strategies that were attempted, in order.                 *)
(***************************************************************************)
EXTENDS Naturals, Sequences, FiniteSets, TLC

VARIABLES
  ENFORCE_AUTH,   \* pipeline._ENFORCE_AUTH
  DEBUG,          \* pipeline._DEBUG
  deployment,     \* where __file__ lives, the working directory, the runtime
  view,           \* the view that handled the last request ("none" at start)
  request,        \* the last request
  response,       \* the last response, or the exception that left the view
  invoked,        \* calls made into the pipeline engine for the last request
  outcome,        \* what the engine did when it was called for that request
  loads           \* asset loading strategies attempted for the last request

vars ==
  <<ENFORCE_AUTH, DEBUG, deployment, view, request, response, invoked,
    outcome, loads>>

----------------------------------------------------------------------------
(* Paths are sequences of segments; 'a/b/c' is <<"a","b","c">>.            *)

RESOURCE_MAP ==
  [p \in {"/status", "/status.css", "/status.js", "/list", "/list.css",
          "/list.js", "/common.js", "/common.css", "/jquery-1.4.2.min.js",
          "/jquery.treeview.min.js", "/jquery.cookie.js", "/jquery.timeago.js",
          "/jquery.ba-hashchange.min.js", "/jquery.json.min.js",
          "/jquery.treeview.css", "/treeview-default.gif",
          "/treeview-default-line.gif", "/treeview-black.gif",
          "/treeview-black-line.gif", "/images/treeview-default.gif",
          "/images/treeview-default-line.gif", "/images/treeview-black.gif",
          "/images/treeview-black-line.gif"} |->
    CASE p = "/status" -> <<(<<"ui", "status.html">>), "text/html">>
      [] p = "/status.css" -> <<(<<"ui", "status.css">>), "text/css">>
      [] p = "/status.js" -> <<(<<"ui", "status.js">>), "text/javascript">>
      [] p = "/list" -> <<(<<"ui", "root_list.html">>), "text/html">>
      [] p = "/list.css" -> <<(<<"ui", "root_list.css">>), "text/css">>
      [] p = "/list.js" -> <<(<<"ui", "root_list.js">>), "text/javascript">>
      [] p = "/common.js" -> <<(<<"ui", "common.js">>), "text/javascript">>
      [] p = "/common.css" -> <<(<<"ui", "common.css">>), "text/css">>
      [] p = "/jquery-1.4.2.min.js" ->
           <<(<<"ui", "jquery-1.4.2.min.js">>), "text/javascript">>
      [] p = "/jquery.treeview.min.js" ->
           <<(<<"ui", "jquery.treeview.min.js">>), "text/javascript">>
      [] p = "/jquery.cookie.js" ->
           <<(<<"ui", "jquery.cookie.js">>), "text/javascript">>
      [] p = "/jquery.timeago.js" ->
           <<(<<"ui", "jquery.timeago.js">>), "text/javascript">>
      [] p = "/jquery.ba-hashchange.min.js" ->
           <<(<<"ui", "jquery.ba-hashchange.min.js">>), "text/javascript">>
      [] p = "/jquery.json.min.js" ->
           <<(<<"ui", "jquery.json.min.js">>), "text/javascript">>
      [] p = "/jquery.treeview.css" ->
           <<(<<"ui", "jquery.treeview.css">>), "text/css">>
      [] p = "/treeview-default.gif" ->
           <<(<<"ui", "images", "treeview-default.gif">>), "image/gif">>
      [] p = "/treeview-default-line.gif" ->
           <<(<<"ui", "images", "treeview-default-line.gif">>), "image/gif">>
      [] p = "/treeview-black.gif" ->
           <<(<<"ui", "images", "treeview-black.gif">>), "image/gif">>
      [] p = "/treeview-black-line.gif" ->
           <<(<<"ui", "images", "treeview-black-line.gif">>), "image/gif">>
      [] p = "/images/treeview-default.gif" ->
           <<(<<"ui", "images", "treeview-default.gif">>), "image/gif">>
      [] p = "/images/treeview-default-line.gif" ->
           <<(<<"ui", "images", "treeview-default-line.gif">>), "image/gif">>
      [] p = "/images/treeview-black.gif" ->
           <<(<<"ui", "images", "treeview-black.gif">>), "image/gif">>
      [] p = "/images/treeview-black-line.gif" ->
           <<(<<"ui", "images", "treeview-black-line.gif">>), "image/gif">>]

(* The physical relative paths the table names: the assets shipped with    *)
(* the package.                                                            *)
PhysicalPaths == {RESOURCE_MAP[p][1] : p \in DOMAIN RESOURCE_MAP}

(* The bytes shipped for an asset; they are the same in every deployment.  *)
AssetBytes(relative_path) == <<"bytes", relative_path>>

----------------------------------------------------------------------------
(* The deployment: the directory that holds status_ui.py (the directory of *)
(* __file__), the process's working directory, whether the runtime is      *)
(* Python 2.6 or later (pkgutil.get_data and os.path.relpath both appeared *)
(* in 2.6), and the assets that are absent from the installation.          *)

(* Path segments that end in '.zip'.                                       *)
ZipSegments == {"lib.zip", "site.zip"}

UnpackedDir == <<"base", "app", "pipeline">>
PackedDir == <<"base", "app", "lib.zip", "pipeline">>
(* Loose files below a directory whose name happens to end in '.zip'.      *)
UnpackedZipNamedDir == <<"base", "site.zip", "pipeline">>

WorkingDirs == {<<"base", "app">>, <<"base">>}

MissingChoices == {{}, {<<"ui", "status.html">>}}

(* An asset is missing only in installations run from the application     *)
(* directory; the working directory plays no part in a failed read.        *)
Deployments ==
  { d \in [module_dir : {UnpackedDir, PackedDir, UnpackedZipNamedDir},
           cwd : WorkingDirs,
           py26 : BOOLEAN,
           missing : MissingChoices] :
      d.missing = {} \/ d.cwd = <<"base", "app">> }

(* TRUE when the package was shipped inside a .zip archive.                *)
IsPacked(dep) == dep.module_dir = PackedDir

Shipped(dep) == PhysicalPaths \ dep.missing

(* The regular files of the installation, by absolute path.                *)
Files(dep) ==
  IF IsPacked(dep) THEN {}
  ELSE {dep.module_dir \o rel : rel \in Shipped(dep)}

(* The archives of the installation, by absolute path, each with the names *)
(* of its entries.  The archive holds the package directory 'pipeline'.    *)
ArchivePath == <<"base", "app", "lib.zip">>
ArchiveEntries(dep) ==
  IF IsPacked(dep) THEN {<<"pipeline">> \o rel : rel \in Shipped(dep)}
  ELSE {}
Archives(dep) == IF IsPacked(dep) THEN {ArchivePath} ELSE {}

(* The bytes stored in a file or an archive entry: those of the asset it   *)
(* was shipped from.  The package directory is the last segment before     *)
(* the relative path, and relative paths start with 'ui'.                  *)
RECURSIVE FromUi(_)
FromUi(path) ==
  IF path = <<>> THEN <<>>
  ELSE IF Head(path) = "ui" THEN path
  ELSE FromUi(Tail(path))
StoredBytes(path) == AssetBytes(FromUi(path))

----------------------------------------------------------------------------
(* os.path and zipfile, on segment sequences.                              *)

(* os.path.join(os.path.dirname(__file__), relative_path)                  *)
JoinPath(dir, relative_path) == dir \o relative_path

(* ('.zip' + os.sep) in path: some segment other than the last ends in     *)
(* '.zip'.                                                                 *)
ContainsZipSep(path) ==
  \E i \in 1..(Len(path) - 1) : path[i] \in ZipSegments

RECURSIVE CommonPrefixLen(_, _)
CommonPrefixLen(a, b) ==
  IF a = <<>> \/ b = <<>> \/ Head(a) # Head(b) THEN 0
  ELSE 1 + CommonPrefixLen(Tail(a), Tail(b))

(* os.path.relpath(path), relative to the working directory `start`.       *)
relpath(path, start) ==
  LET k == CommonPrefixLen(path, start)
  IN  [i \in 1..(Len(start) - k) |-> ".."] \o SubSeq(path, k + 1, Len(path))

(* What the operating system opens for a relative path: '..' steps up.     *)
RECURSIVE Resolve(_, _)
Resolve(dir, rel) ==
  IF rel = <<>> THEN dir
  ELSE IF Head(rel) = ".." THEN Resolve(SubSeq(dir, 1, Len(dir) - 1), Tail(rel))
  ELSE Resolve(Append(dir, Head(rel)), Tail(rel))

(* Index of the first segment, other than the last, that ends in '.zip';   *)
(* 0 when there is none.                                                   *)
FirstZipSep(path) ==
  IF ContainsZipSep(path)
  THEN CHOOSE i \in 1..(Len(path) - 1) :
         /\ path[i] \in ZipSegments
         /\ \A j \in 1..(i - 1) : path[j] \notin ZipSegments
  ELSE 0

(* The outcome of loading: the bytes read, or the exception raised.        *)
Loaded(content, attempts) ==
  [ok |-> TRUE, content |-> content, exc |-> "", loads |-> attempts]
LoadFailed(exc, attempts) ==
  [ok |-> FALSE, content |-> <<>>, exc |-> exc, loads |-> attempts]

(* Lines 96-97: (zip_file, zip_path) = relpath(path).split('.zip/', 1);    *)
(* ZipFile(zip_file + '.zip').read(zip_path).  Before Python 2.6 os.path   *)
(* has no relpath (AttributeError); a relative path without '.zip/' splits *)
(* into one piece, which does not unpack into the pair (ValueError).       *)
ZipBranch(dep, path) ==
  IF ~dep.py26 THEN LoadFailed("AttributeError", <<>>)
  ELSE
    LET rel == relpath(path, dep.cwd)
        i == FirstZipSep(rel)
    IN  IF i = 0 THEN LoadFailed("ValueError", <<>>)
        ELSE
          LET zip_file == Resolve(dep.cwd, SubSeq(rel, 1, i))
              zip_path == SubSeq(rel, i + 1, Len(rel))
          IN  IF zip_file \notin Archives(dep)
              THEN LoadFailed("IOError", <<"zipfile.read">>)
              ELSE IF zip_path \notin ArchiveEntries(dep)
              THEN LoadFailed("KeyError", <<"zipfile.read">>)
              ELSE Loaded(StoredBytes(zip_path), <<"zipfile.read">>)

(* Reading a regular file: open(path, 'rb').read(), also what the          *)
(* package loader's get_data does.                                         *)
ReadFile(dep, path, attempts) ==
  IF path \in Files(dep) THEN Loaded(StoredBytes(path), attempts)
  ELSE LoadFailed("IOError", attempts)

(* Lines 99-102: pkgutil.get_data(__name__, relative_path), and on         *)
(* AttributeError (Python < 2.6) open(path, 'rb').read().                  *)
FileBranch(dep, path, relative_path) ==
  IF dep.py26
  THEN ReadFile(dep, JoinPath(dep.module_dir, relative_path),
                <<"pkgutil.get_data">>)
  ELSE ReadFile(dep, path, <<"pkgutil.get_data", "open">>)

(* Faulty variant of lines 90-102: the packaged-data read is tried first   *)
(* in the '.zip' case too, archive extraction only after it failed.        *)
LoadContent_pkgutil_first(dep, relative_path) ==
  LET path == JoinPath(dep.module_dir, relative_path)
      first == FileBranch(dep, path, relative_path)
      second == ZipBranch(dep, path)
  IN  IF ~ContainsZipSep(path) \/ first.ok THEN first
      ELSE [second EXCEPT !.loads = first.loads \o second.loads]
(* Lines 90-102.                                                           *)
LoadContent(dep, relative_path) ==
  LET path == JoinPath(dep.module_dir, relative_path)
  IN  IF ContainsZipSep(path) THEN ZipBranch(dep, path)
      ELSE FileBranch(dep, path, relative_path)

----------------------------------------------------------------------------
(* Requests.  user is the App Engine user of the request ("None" when      *)
(* nobody is logged in); x_requested_with is the X-Requested-With header   *)
(* ("absent" when the request does not carry it); GET holds the query      *)
(* parameters, "None" for a parameter that is not given.                   *)

Users == {"None", "user@example.com", "admin@example.com"}
HeaderValues == {"absent", "XMLHttpRequest", "other"}
NoParams == [root_pipeline_id |-> "None", class_path |-> "None", cursor |-> "None"]

(* Logical paths that are not keys of the table; '' is the default of the  *)
(* resource argument.                                                      *)
UnknownResources == {"", "/status.html", "/missing"}
Resources == DOMAIN RESOURCE_MAP \cup UnknownResources

StaticRequests ==
  [resource : Resources, user : Users, x_requested_with : {"absent"},
   GET : {NoParams}]
TreeStatusRequests ==
  [resource : {""}, user : Users, x_requested_with : HeaderValues,
   GET : [root_pipeline_id : {"None", "root1"}, class_path : {"None"},
          cursor : {"None"}]]
ClassPathListRequests ==
  [resource : {""}, user : Users, x_requested_with : HeaderValues,
   GET : {NoParams}]
RootListRequests ==
  [resource : {""}, user : Users, x_requested_with : HeaderValues,
   GET : {NoParams,
          [root_pipeline_id |-> "None", class_path |-> "pkg.Cls",
           cursor |-> "cursor1"]}]

(* google.appengine.api.users *)
get_current_user(req) == req.user
is_current_user_admin(req) == req.user = "admin@example.com"
create_login_url(dest_url) == <<"login?continue=", dest_url>>

(* django.http.HttpRequest *)
build_absolute_uri(req) == req.resource
is_ajax(req) == req.x_requested_with = "XMLHttpRequest"

----------------------------------------------------------------------------
(* Responses.  A view either returns an HttpResponse or lets an exception  *)
(* through (kind "raised").  headers is the set of headers set besides     *)
(* Content-Type.                                                           *)

DefaultContentType == "text/html; charset=utf-8"

Response(status, content, content_type, headers) ==
  [kind |-> "response", status |-> status, content |-> content,
   content_type |-> content_type, headers |-> headers, exc |-> ""]
HttpResponse(content, content_type) == Response(200, content, content_type, {})
HttpResponseForbidden(content) == Response(403, content, DefaultContentType, {})
HttpResponseNotFound == Response(404, "", DefaultContentType, {})
redirect(to) == Response(302, "", DefaultContentType, {<<"Location", to>>})
Raised(exc) ==
  [kind |-> "raised", status |-> 0, content |-> "", content_type |-> "",
   headers |-> {}, exc |-> exc]
NoResponse ==
  [kind |-> "none", status |-> 0, content |-> "", content_type |-> "",
   headers |-> {}, exc |-> ""]

(* response[name] = value *)
SetHeader(resp, name, value) ==
  [resp EXCEPT !.headers =
     {h \in resp.headers : h[1] # name} \cup {<<name, value>>}]
HasHeader(resp, name) == \E h \in resp.headers : h[1] = name

----------------------------------------------------------------------------
(* statusui_handler                                                        *)

(* Faulty variant of lines 77-84: the admin test comes first.              *)
statusui_auth_swapped(req) ==
  IF ~ENFORCE_AUTH THEN "pass"
  ELSE IF ~is_current_user_admin(req) THEN "forbidden"
  ELSE IF get_current_user(req) = "None" THEN "redirect"
  ELSE "pass"
(* Lines 77-84: "redirect", "forbidden" or "pass".                         *)
statusui_auth(req) ==
  IF ~ENFORCE_AUTH THEN "pass"
  ELSE IF get_current_user(req) = "None" THEN "redirect"
  ELSE IF ~is_current_user_admin(req) THEN "forbidden"
  ELSE "pass"

(* Faulty variants of lines 86-90: an unknown path falls back to the       *)
(* status page; '/list' is matched as a prefix of '/list.js'.              *)
lookup_default_page(resource) ==
  IF resource \notin DOMAIN RESOURCE_MAP THEN RESOURCE_MAP["/status"]
  ELSE RESOURCE_MAP[resource]
lookup_first_match(resource) ==
  IF resource \notin DOMAIN RESOURCE_MAP THEN <<>>
  ELSE IF resource = "/list" THEN RESOURCE_MAP["/list.js"]
  ELSE RESOURCE_MAP[resource]
(* Lines 86-90: the table entry of the resource, <<>> when it has none.    *)
lookup(resource) ==
  IF resource \notin DOMAIN RESOURCE_MAP THEN <<>>
  ELSE RESOURCE_MAP[resource]

(* Faulty variant of lines 104-109: the header is set in debug mode too.   *)
static_response_always_cached(content, content_type) ==
  SetHeader(HttpResponse(content, content_type),
            "Cache-Control", "public, max-age=300")
(* Lines 104-109.                                                          *)
static_response(content, content_type) ==
  IF ~DEBUG
  THEN SetHeader(HttpResponse(content, content_type),
                 "Cache-Control", "public, max-age=300")
  ELSE HttpResponse(content, content_type)

(* Lines 74-109: the response and the loading strategies attempted.        *)
statusui_handler(req) ==
  LET auth == statusui_auth(req)
      entry == lookup(req.resource)
  IN  IF auth = "redirect"
      THEN [response |-> redirect(create_login_url(build_absolute_uri(req))),
            loads |-> <<>>]
      ELSE IF auth = "forbidden"
      THEN [response |-> HttpResponseForbidden(""), loads |-> <<>>]
      ELSE IF entry = <<>>
      THEN [response |-> HttpResponseNotFound, loads |-> <<>>]
      ELSE
        LET relative_path == entry[1]
            content_type == entry[2]
            loaded == LoadContent(deployment, relative_path)
        IN  IF loaded.ok
            THEN [response |-> static_response(loaded.content, content_type),
                  loads |-> loaded.loads]
            ELSE [response |-> Raised(loaded.exc), loads |-> loaded.loads]

----------------------------------------------------------------------------
(* The pipeline engine is external: a query either returns a value or      *)
(* raises.  A returned value is data the JSON encoder can serialize or an  *)
(* object it cannot.  A raised exception has a class name, derives from    *)
(* Exception or only from BaseException, and carries a message: empty      *)
(* (raised without arguments), plain text, or unicode text that str()      *)
(* cannot encode.                                                          *)

Returns(value) ==
  [kind |-> "return", value |-> value, cls |-> "", is_exception |-> FALSE,
   message |-> "", encodable |-> TRUE]
Raises(cls, is_exception, message, encodable) ==
  [kind |-> "raise", value |-> "", cls |-> cls, is_exception |-> is_exception,
   message |-> message, encodable |-> encodable]

EngineOutcomes ==
  { Returns("data"),
    Returns("opaque_object"),
    Raises("ValueError", TRUE, "invalid cursor", TRUE),
    Raises("PipelineStatusError", TRUE, "", TRUE),
    Raises("BadRequestError", TRUE, "unicode text", FALSE),
    Raises("DeadlineExceededError", FALSE, "deadline exceeded", TRUE) }

(* What evaluating a piece of Python leaves: a value or a raised exception *)
(* (same shape as an engine outcome).                                      *)
TypeErrorNotSerializable ==
  Raises("TypeError", TRUE, "is not JSON serializable", TRUE)
UnicodeEncodeError ==
  Raises("UnicodeEncodeError", TRUE, "ordinal not in range(128)", TRUE)

(* json.dumps(obj, cls=util.JsonEncoder): obj is a mapping (a record).     *)
Serializable(obj) == \A k \in DOMAIN obj : obj[k] # "opaque_object"
json_dumps(obj) ==
  IF Serializable(obj) THEN Returns([json |-> obj])
  ELSE TypeErrorNotSerializable

(* traceback.format_exc() *)
format_exc == "Traceback (most recent call last): ..."

(* Lines 153-172: the wrapped views.  Each names the engine query it       *)
(* calls with its arguments, and shapes the value the query returns.       *)
treestatus_func == [query |-> "get_status_tree"]
classpathlist_func == [query |-> "get_pipeline_names"]
rootlist_func == [query |-> "get_root_list"]

QueryArgs(func, req) ==
  CASE func.query = "get_status_tree" -> <<req.GET.root_pipeline_id>>
    [] func.query = "get_pipeline_names" -> <<>>
    [] func.query = "get_root_list" -> <<req.GET.class_path, req.GET.cursor>>

Shape(func, value) ==
  CASE func.query = "get_pipeline_names" -> [classPaths |-> value]
    [] OTHER -> [result |-> value]

(* func(request): the call made into the engine and what comes back.       *)
CallFunc(func, req, engine) ==
  IF engine.kind = "return" THEN Returns(Shape(func, engine.value))
  ELSE engine

----------------------------------------------------------------------------
(* _rpc_handler.wrapper                                                    *)

(* Faulty variant of lines 120-123: only anonymous callers are denied.     *)
rpc_auth_denied_anonymous_only(req) ==
  ENFORCE_AUTH /\ get_current_user(req) = "None"
(* Lines 120-123.                                                          *)
rpc_auth_denied(req) ==
  ENFORCE_AUTH /\ ~is_current_user_admin(req)

(* Faulty variant of lines 126-127: the marker is required in debug mode.  *)
xsrf_denied_in_debug_too(req) ==
  ~is_ajax(req)
(* Lines 126-127.                                                          *)
xsrf_denied(req) ==
  ~DEBUG /\ ~is_ajax(req)

(* Faulty variant of lines 142-147: no-cache is left out in debug mode.    *)
rpc_response_cached_in_debug(output) ==
  IF DEBUG THEN HttpResponse(output, "application/json")
  ELSE SetHeader(HttpResponse(output, "application/json"),
                 "Cache-Control", "no-cache")
(* Lines 142-147.                                                          *)
rpc_response(output) ==
  SetHeader(HttpResponse(output, "application/json"),
            "Cache-Control", "no-cache")

(* Lines 134-140: the handler of `except Exception, e`, entered with the   *)
(* exception e.  str(e) raises UnicodeEncodeError for a unicode message    *)
(* with non-ASCII characters, and that exception leaves the wrapper.       *)
except_handler(e) ==
  IF ~e.encodable THEN UnicodeEncodeError
  ELSE json_dumps([error_class |-> e.cls,
                   error_message |-> e.message,
                   error_traceback |-> format_exc])

(* Lines 131-140: the try statement; the JSON text, or the exception that  *)
(* leaves it.  `except Exception` does not catch an exception that derives *)
(* only from BaseException.                                                *)
try_block(func, req, engine) ==
  LET called == CallFunc(func, req, engine)
      dumped == IF called.kind = "return" THEN json_dumps(called.value)
                ELSE called
  IN  IF dumped.kind = "return" THEN dumped
      ELSE IF dumped.is_exception THEN except_handler(dumped)
      ELSE dumped

(* Lines 131-147, once both gates are passed.                              *)
invoke(func, req, engine) ==
  LET output == try_block(func, req, engine)
      call == [query |-> func.query, args |-> QueryArgs(func, req)]
  IN  IF output.kind = "return"
      THEN [response |-> rpc_response(output.value), invoked |-> <<call>>]
      ELSE [response |-> Raised(output.cls), invoked |-> <<call>>]

(* Faulty variant of lines 118-147: the anti-forgery gate comes first.     *)
wrapper_xsrf_first(func, req, engine) ==
  IF xsrf_denied(req)
  THEN [response |->
          HttpResponseForbidden("Request missing X-Requested-With header"),
        invoked |-> <<>>]
  ELSE IF rpc_auth_denied(req)
  THEN [response |-> HttpResponseForbidden("Forbidden"), invoked |-> <<>>]
  ELSE invoke(func, req, engine)
(* Lines 118-147: the response and the calls made into the engine.         *)
wrapper(func, req, engine) ==
  IF rpc_auth_denied(req)
  THEN [response |-> HttpResponseForbidden("Forbidden"), invoked |-> <<>>]
  ELSE IF xsrf_denied(req)
  THEN [response |->
          HttpResponseForbidden("Request missing X-Requested-With header"),
        invoked |-> <<>>]
  ELSE invoke(func, req, engine)

----------------------------------------------------------------------------
(* The state machine.                                                      *)

NoRequest ==
  [resource |-> "", user |-> "None", x_requested_with |-> "absent",
   GET |-> NoParams]
NoOutcome == Returns("")

Init ==
  /\ ENFORCE_AUTH \in BOOLEAN
  /\ DEBUG \in BOOLEAN
  /\ deployment \in Deployments
  /\ view = "none"
  /\ request = NoRequest
  /\ response = NoResponse
  /\ invoked = <<>>
  /\ outcome = NoOutcome
  /\ loads = <<>>

(* The configuration and the deployment are fixed at start-up.             *)
Fixed == UNCHANGED <<ENFORCE_AUTH, DEBUG, deployment>>

StatusUi ==
  \E req \in StaticRequests :
    LET r == statusui_handler(req)
    IN  /\ view' = "statusui_handler"
        /\ request' = req
        /\ response' = r.response
        /\ loads' = r.loads
        /\ invoked' = <<>>
        /\ outcome' = NoOutcome
        /\ Fixed

(* The engine's outcome is recorded when the engine was called.            *)
Recorded(r, engine) == IF r.invoked = <<>> THEN NoOutcome ELSE engine

TreeStatus ==
  \E req \in TreeStatusRequests, engine \in EngineOutcomes :
    LET r == wrapper(treestatus_func, req, engine)
    IN  /\ view' = "treestatus_handler"
        /\ request' = req
        /\ response' = r.response
        /\ invoked' = r.invoked
        /\ outcome' = Recorded(r, engine)
        /\ loads' = <<>>
        /\ Fixed

ClassPathList ==
  \E req \in ClassPathListRequests, engine \in EngineOutcomes :
    LET r == wrapper(classpathlist_func, req, engine)
    IN  /\ view' = "classpathlist_handler"
        /\ request' = req
        /\ response' = r.response
        /\ invoked' = r.invoked
        /\ outcome' = Recorded(r, engine)
        /\ loads' = <<>>
        /\ Fixed

RootList ==
  \E req \in RootListRequests, engine \in EngineOutcomes :
    LET r == wrapper(rootlist_func, req, engine)
    IN  /\ view' = "rootlist_hanlder"
        /\ request' = req
        /\ response' = r.response
        /\ invoked' = r.invoked
        /\ outcome' = Recorded(r, engine)
        /\ loads' = <<>>
        /\ Fixed

Next == StatusUi \/ TreeStatus \/ ClassPathList \/ RootList

Spec == Init /\ [][Next]_vars

----------------------------------------------------------------------------
(* Vocabulary of the properties: all about the request handled last.       *)

RpcViews == {"treestatus_handler", "classpathlist_handler", "rootlist_hanlder"}
IsRpc == view \in RpcViews
IsStatic == view = "statusui_handler"
Returned == response.kind = "response"
NoPrincipal == request.user = "None"
NotAdmin == request.user \in {"None", "user@example.com"}
IsAdmin == request.user = "admin@example.com"
MarkerAbsent == request.x_requested_with = "absent"
ForbiddenBody == "Forbidden"
XsrfBody == "Request missing X-Requested-With header"
Denied(body) == Returned /\ response.status = 403 /\ response.content = body
InTable == request.resource \in DOMAIN RESOURCE_MAP
Served == IsStatic /\ Returned /\ response.status = 200

PassesAuth == ~ENFORCE_AUTH \/ IsAdmin
PassesXsrf == DEBUG \/ request.x_requested_with = "XMLHttpRequest"
PassesBothGates == PassesAuth /\ PassesXsrf
NoCache == <<"Cache-Control", "no-cache">>
PublicCache == <<"Cache-Control", "public, max-age=300">>
LoginLocation == <<"Location", create_login_url(request.resource)>>
Attempted(strategy) == \E i \in 1..Len(loads) : loads[i] = strategy

----------------------------------------------------------------------------
(* C1: under enforce_auth, an RPC request whose caller is not an admin     *)
(* (nobody logged in, or a user who is not admin) is answered 403 with     *)
(* body "Forbidden", and the wrapped query function is not invoked.        *)
C1_NonAdminRpcForbidden ==
  (IsRpc /\ ENFORCE_AUTH /\ NotAdmin)
    => (Denied(ForbiddenBody) /\ invoked = <<>>)

C1_Witness ==
  /\ view = "rootlist_hanlder" /\ ENFORCE_AUTH
  /\ request.user = "user@example.com"
  /\ request.x_requested_with = "XMLHttpRequest"
  /\ Denied(ForbiddenBody) /\ invoked = <<>>

(* C2 as stated: every RPC request without the marker header, when         *)
(* debug_mode is false, is answered 403 with the missing-header body and   *)
(* the query function is not invoked; in debug mode the header is not      *)
(* required.                                                               *)
C2_Original ==
  /\ (IsRpc /\ ~DEBUG /\ MarkerAbsent) => (Denied(XsrfBody) /\ invoked = <<>>)
  /\ (IsRpc /\ DEBUG) => ~Denied(XsrfBody)

(* C2, amended: the missing-header denial is the answer when the request   *)
(* has passed the authorization gate (enforce_auth false, or an admin      *)
(* caller); a request without the header is never passed on to the query   *)
(* function when debug_mode is false; in debug mode the header is not      *)
(* required.                                                               *)
C2_MissingMarkerDenied ==
  /\ (IsRpc /\ ~DEBUG /\ MarkerAbsent /\ PassesAuth) => Denied(XsrfBody)
  /\ (IsRpc /\ ~DEBUG /\ MarkerAbsent)
       => (Returned /\ response.status = 403 /\ invoked = <<>>)
  /\ (IsRpc /\ DEBUG) => ~Denied(XsrfBody)
  /\ (IsRpc /\ DEBUG /\ PassesAuth) => Len(invoked) = 1

C2_Witness ==
  /\ IsRpc /\ ~DEBUG /\ MarkerAbsent /\ ENFORCE_AUTH /\ IsAdmin
  /\ Denied(XsrfBody) /\ invoked = <<>>

(* C3: when a request passes both gates and the query function raises,     *)
(* the failure does not leave the wrapper: the response is 200 with a JSON *)
(* body that has a non-empty error_class and a non-empty error_message,    *)
(* and an error_traceback.                                                 *)
C3_FailureContained ==
  (IsRpc /\ PassesBothGates /\ outcome.kind = "raise")
    => /\ Returned
       /\ response.status = 200
       /\ DOMAIN response.content = {"json"}
       /\ DOMAIN response.content.json =
            {"error_class", "error_message", "error_traceback"}
       /\ response.content.json.error_class # ""
       /\ response.content.json.error_message # ""

(* C4 as stated: every response of an RPC endpoint carries                 *)
(* Cache-Control: no-cache, denials included.                              *)
C4_Original ==
  (IsRpc /\ Returned) => NoCache \in response.headers

(* C4, amended: every response produced after both gates are passed (the   *)
(* success mapping or the error mapping) carries Cache-Control: no-cache,  *)
(* whatever debug_mode and enforce_auth are; a denial by a gate carries no *)
(* Cache-Control header.                                                   *)
C4_NoCacheOnResults ==
  /\ (IsRpc /\ Returned /\ response.status = 200)
       => NoCache \in response.headers
  /\ (IsRpc /\ Returned /\ PassesBothGates) => NoCache \in response.headers
  /\ (IsRpc /\ Returned /\ response.status = 403)
       => ~HasHeader(response, "Cache-Control")

C4_Witness ==
  /\ IsRpc /\ DEBUG /\ ENFORCE_AUTH /\ Returned /\ response.status = 200
  /\ outcome.kind = "raise"
  /\ NoCache \in response.headers

(* C5: a served static asset carries Cache-Control "public, max-age=300"   *)
(* exactly when debug_mode is false, and no Cache-Control header at all    *)
(* when debug_mode is true.                                                *)
C5_StaticCacheControl ==
  (Served /\ InTable)
    => /\ (PublicCache \in response.headers) <=> ~DEBUG
       /\ DEBUG => ~HasHeader(response, "Cache-Control")
       /\ ~DEBUG => response.headers = {PublicCache}

C5_Witness ==
  Served /\ InTable /\ DEBUG /\ ~HasHeader(response, "Cache-Control")

(* C6: under enforce_auth with nobody logged in, a static request is       *)
(* answered with a redirect to the login URL and an RPC request with a 403 *)
(* denial, never the other way round; without enforce_auth neither is      *)
(* redirected or denied for lack of a principal.                           *)
C6_RedirectVersusDeny ==
  /\ (IsStatic /\ ENFORCE_AUTH /\ NoPrincipal)
       => (Returned /\ response.status = 302
           /\ response.headers = {LoginLocation})
  /\ (IsRpc /\ ENFORCE_AUTH /\ NoPrincipal)
       => (Returned /\ response.status = 403
           /\ ~HasHeader(response, "Location"))
  /\ (IsStatic /\ ~ENFORCE_AUTH /\ NoPrincipal /\ Returned)
       => response.status \in {200, 404}
  /\ (IsRpc /\ ~ENFORCE_AUTH /\ NoPrincipal /\ Returned)
       => (response.status # 302 /\ ~Denied(ForbiddenBody))
  /\ (IsRpc /\ ~ENFORCE_AUTH /\ NoPrincipal /\ PassesXsrf)
       => Len(invoked) = 1

C6_Witness ==
  /\ IsStatic /\ ENFORCE_AUTH /\ NoPrincipal /\ InTable
  /\ response.status = 302 /\ LoginLocation \in response.headers

(* C7 as stated: every static request for a path that is not a key of the  *)
(* table is answered 404, and no asset is loaded.                          *)
C7_Original ==
  (IsStatic /\ ~InTable)
    => (Returned /\ response.status = 404 /\ loads = <<>>)

(* C7, amended: a static request for a path that is not a key of the table *)
(* is answered 404 when it passes the authentication check (enforce_auth   *)
(* false, or an admin caller); under enforce_auth a caller who is not      *)
(* admin gets the login redirect or the 403 instead.  In no case is an     *)
(* asset loaded or served.                                                 *)
C7_UnknownPathNotFound ==
  /\ (IsStatic /\ ~InTable /\ PassesAuth)
       => (Returned /\ response.status = 404 /\ response.content = "")
  /\ (IsStatic /\ ~InTable /\ ~PassesAuth)
       => (Returned /\ response.status \in {302, 403})
  /\ (IsStatic /\ ~InTable) => (loads = <<>> /\ Returned)

C7_Witness ==
  /\ IsStatic /\ request.resource = "/status.html" /\ ENFORCE_AUTH /\ IsAdmin
  /\ response.status = 404 /\ loads = <<>>

(* C8: a served static request for a path of the table returns the content *)
(* type declared in its entry and the bytes of the asset, the same from    *)
(* loose files and from a .zip archive.                                    *)
C8_ServedAssetIsDeclared ==
  (Served /\ InTable)
    => /\ response.content_type = RESOURCE_MAP[request.resource][2]
       /\ response.content = AssetBytes(RESOURCE_MAP[request.resource][1])

C8_Witness ==
  /\ Served /\ request.resource = "/list" /\ IsPacked(deployment)
  /\ deployment.cwd = <<"base">>
  /\ response.content = AssetBytes(<<"ui", "root_list.html">>)
  /\ loads = <<"zipfile.read">>

(* C9 as stated: on every table hit the packaged-data read is attempted    *)
(* first, and direct archive extraction happens only after it.             *)
C9_Original ==
  (IsStatic /\ InTable /\ PassesAuth)
    => /\ loads # <<>>
       /\ loads[1] = "pkgutil.get_data"

(* The path the handler resolves for the request's table entry.            *)
ResolvedPath ==
  JoinPath(deployment.module_dir, RESOURCE_MAP[request.resource][1])

(* C9, amended: on a table hit the strategy follows from the resolved      *)
(* path.  When the path has a '.zip/' segment the handler goes straight to *)
(* direct archive extraction and never attempts the packaged-data read;    *)
(* otherwise it attempts the packaged-data read first and falls back, when *)
(* that is unavailable (Python < 2.6), to reading the file directly.       *)
C9_LoadStrategy ==
  /\ (IsStatic /\ InTable /\ PassesAuth /\ ContainsZipSep(ResolvedPath))
       => (loads \in {<<>>, <<"zipfile.read">>}
           /\ (deployment.py26 /\ IsPacked(deployment)
                 => loads = <<"zipfile.read">>))
  /\ (IsStatic /\ InTable /\ PassesAuth /\ ~ContainsZipSep(ResolvedPath))
       => IF deployment.py26 THEN loads = <<"pkgutil.get_data">>
          ELSE loads = <<"pkgutil.get_data", "open">>
  /\ (IsStatic /\ ~(InTable /\ PassesAuth)) => loads = <<>>

C9_Witness ==
  /\ Served /\ InTable /\ IsPacked(deployment)
  /\ ContainsZipSep(ResolvedPath)
  /\ loads = <<"zipfile.read">> /\ ~Attempted("pkgutil.get_data")

(* C10: the gates are evaluated in the order authorization, anti-forgery,  *)
(* invocation: a request that fails both gates gets the "Forbidden"        *)
(* denial, and the query function is invoked exactly once when both gates  *)
(* pass and not at all otherwise.                                          *)
C10_GateOrder ==
  IsRpc =>
    /\ (ENFORCE_AUTH /\ NotAdmin /\ ~DEBUG /\ MarkerAbsent)
         => Denied(ForbiddenBody)
    /\ (~PassesAuth) => Denied(ForbiddenBody)
    /\ (PassesAuth /\ ~PassesXsrf) => Denied(XsrfBody)
    /\ PassesBothGates => Len(invoked) = 1
    /\ ~PassesBothGates => invoked = <<>>

C10_Witness ==
  /\ IsRpc /\ ENFORCE_AUTH /\ NotAdmin /\ ~DEBUG /\ MarkerAbsent
  /\ Denied(ForbiddenBody) /\ invoked = <<>>

====
